---- MODULE Spec2Model ----
(***************************************************************************)
(* Dataset marker clustering of the flatmap viewer.                        *)
(*                                                                         *)
(*   MapTermGraph            the anatomical term hierarchy (knowledge)     *)
(*   DatasetClusterSet       src/layers/datasetcluster.ts                  *)
(*   ClusteredAnatomicalMarkerLayer   the cross-dataset aggregation        *)
(*   PaneManager             app/multipane: loadMap and pane closes        *)
(*   MarkerLayer             the published marker points                   *)
(*                                                                         *)
(* Terms are the integers 0..MaxTerm, the anatomical root is term 0 and a  *)
(* term's parents always carry a smaller number than the term, so that     *)
(* every hierarchy is acyclic.  A JavaScript array indexed 0..n-1 is a     *)
(* sequence indexed 1..n: index z of the array is element z+1.             *)
(***************************************************************************)
EXTENDS Integers, Sequences, FiniteSets, TLC

\* ------------------------------------------------------------------ bounds
MaxTerm == 3
MaxParents == 2
MaxTermsLen == 2
MaxDatasetId == 2
MaxOps == 3
MaxPanes == 2
MaxMaps == 3
MaxCalls == 3
MaxMarkers == 3
MaxFeatureId == 2
MaxCount == 3

\* ------------------------------------------------------- program constants
MIN_MARKER_ZOOM == 2
MAX_MARKER_ZOOM == 12
ANATOMICAL_ROOT == 0
\* the empty string a blank raw term trims to
BlankTerm == -1
\* the null that substituteTerm returns when there is no substitute
NullTerm == -2

Terms == 0..MaxTerm
\* a raw term of a dataset descriptor: a term, a blank string, or the deepest
\* term written with surrounding white space (the numbers below NullTerm)
padded(term) == NullTerm - 1 - term
RawTerms == Terms \cup {BlankTerm, padded(MaxTerm)}
Zooms == 0..MAX_MARKER_ZOOM
DatasetIds == 1..MaxDatasetId
\* a dataset descriptor's optional kind; NoKind is an absent field
NoKind == "undefined"
Kinds == {NoKind, "dataset", "multiscale"}

VARIABLES
    hierarchy,              \* MapTermGraph.#hierarchy: term -> list of parents
    mappedTerms,            \* terms the map has a feature for
    clusteredSet,           \* the DatasetClusterSet built last
    datasetFeatureIds,      \* ClusteredAnatomicalMarkerLayer.#datasetFeatureIds
    datasetsByZoomTerm,     \* ... #datasetsByZoomTerm
    kindByDataset,          \* ... #kindByDataset
    kindByTerm,             \* ... #kindByTerm
    markerTerms,            \* ... #markerTerms
    markerTermsByZoomTerm,  \* ... #markerTermsByZoomTerm
    multiScaleByZoomTerm,   \* ... #multiScaleByZoomTerm
    points,                 \* ... #points.features
    loaded,                 \* history: dataset id -> the descriptor added last
    lastOp,                 \* history: the call made last
    before,                 \* history: #datasetsByZoomTerm before the last call
    nops,                   \* history: number of calls made
    activeBottom,           \* PaneManager.#activeBottom
    activeMaps,             \* PaneManager.#activeMaps
    mapsByPane,             \* PaneManager.#mapsByPane, in insertion order
    mapPanes,               \* PaneManager.#mapPanes: PaneSet.#paneIds
    nextPaneNumber,         \* PaneManager.#mapPanes: PaneSet.#nextPaneNumber
    mode,                   \* PaneManager.#mode
    calls,                  \* the loadMap calls made, each with its position
    featureIndexById,       \* MarkerLayer.#featureIndexById
    featureToMarkerPoint,   \* MarkerLayer.#featureToMarkerPoint
    features,               \* MarkerLayer.#points.features
    nextMarkerId,           \* the id UserInteractions.nextMarkerId() gives next
    lastMarkerOp            \* history: the MarkerLayer call made last

layerVars == <<datasetFeatureIds, datasetsByZoomTerm, kindByDataset, kindByTerm,
               markerTerms, markerTermsByZoomTerm, multiScaleByZoomTerm, points>>
historyVars == <<loaded, lastOp, before, nops>>
paneVars == <<activeBottom, activeMaps, mapsByPane, mapPanes, nextPaneNumber,
              mode, calls>>
markerVars == <<featureIndexById, featureToMarkerPoint, features, nextMarkerId,
                lastMarkerOp>>
vars == <<hierarchy, mappedTerms, clusteredSet, layerVars, historyVars,
          paneVars, markerVars>>

\* ----------------------------------------------------------------- helpers
Range(s) == {s[i] : i \in DOMAIN s}
Min(S) == CHOOSE x \in S : \A y \in S : x <= y
Max(S) == CHOOSE x \in S : \A y \in S : x >= y
EmptyMap == [x \in {} |-> {}]
\* Map.set and Map.delete
MapSet(m, k, v) == [x \in (DOMAIN m) \cup {k} |-> IF x = k THEN v ELSE m[x]]
MapDelete(m, k) == [x \in (DOMAIN m) \ {k} |-> m[x]]
\* Map.get of a map of sets, an absent key read as the empty set
GetOrEmpty(m, k) == IF k \in DOMAIN m THEN m[k] ELSE {}
\* the elements of a finite set of integers in increasing order
RECURSIVE SortedSeq(_)
SortedSeq(S) == IF S = {} THEN <<>> ELSE <<Min(S)>> \o SortedSeq(S \ {Min(S)})

\* sequences over S of length at most n
RECURSIVE SeqsUpTo(_, _)
SeqsUpTo(S, n) ==
    IF n = 0 THEN {<<>>}
    ELSE LET shorter == SeqsUpTo(S, n - 1)
         IN shorter \cup {Append(s, x) : s \in shorter, x \in S}

\* sequences over S without repetition, of length at most n
DistinctSeqs(S, n) ==
    {s \in SeqsUpTo(S, n) : \A i, j \in DOMAIN s : i # j => s[i] # s[j]}

\* ------------------------------------------------------------ MapTermGraph
\* the hierarchies: every term lists at most MaxParents parents, all of them
\* of a smaller number
Hierarchies ==
    {h \in [Terms -> DistinctSeqs(Terms, MaxParents)] :
        \A t \in Terms : \A p \in Range(h[t]) : p < t}

parents(term) == hierarchy[term]

hasAnatomicalIdentifier(term) == term \in mappedTerms

\* the 'depth' attribute of a node: shortest distance from the root, absent
\* (-1 here) for a node the root does not reach
RECURSIVE nodeDepth(_)
nodeDepth(term) ==
    IF term = ANATOMICAL_ROOT THEN 0
    ELSE LET ds == {nodeDepth(p) : p \in Range(hierarchy[term])} \ {-1}
         IN IF ds = {} THEN -1 ELSE Min(ds) + 1

depth(term) == IF term \in Terms /\ nodeDepth(term) # -1 THEN nodeDepth(term) ELSE -1

maxDepth == Max({nodeDepth(t) : t \in Terms})

RECURSIVE ancestors(_)
ancestors(term) ==
    Range(hierarchy[term]) \cup UNION {ancestors(p) : p \in Range(hierarchy[term])}

\* DiGraph.connectedSubgraph: the subgraph induced by the root, the given
\* terms and every ancestor on a chain from a given term to the root
connectedSubgraph(terms) ==
    LET nodes == {ANATOMICAL_ROOT} \cup terms
                    \cup {a \in UNION {ancestors(t) : t \in terms} : nodeDepth(a) # -1}
    IN [nodes |-> nodes,
        parents |-> [n \in nodes |-> SelectSeq(hierarchy[n], LAMBDA p : p \in nodes)]]

connectedTermGraph(terms) == connectedSubgraph({ANATOMICAL_ROOT} \cup terms)

\* DiGraph.children and DiGraph.degree of a connected subgraph
children(g, term) == SortedSeq({c \in g.nodes : term \in Range(g.parents[c])})
degree(g, term) == Len(g.parents[term]) + Len(children(g, term))

\* ------------------------------------------------------- DatasetClusterSet
\* String.trim of a raw term
trim(raw) == IF raw < NullTerm THEN NullTerm - 1 - raw ELSE raw

\* depthToZoomRange without the clamp of a negative zoom
depthToZoomRange_NoLowClamp(d) ==
    LET zoom == MIN_MARKER_ZOOM
                  + ((MAX_MARKER_ZOOM - MIN_MARKER_ZOOM) * d) \div maxDepth
    IN IF zoom >= MAX_MARKER_ZOOM THEN <<MAX_MARKER_ZOOM, MAX_MARKER_ZOOM>>
       ELSE <<zoom, zoom + 1>>

\* depthToZoomRange with the band of a depth reaching to the next depth's band
depthToZoomRange_UpToNext(d) ==
    LET zoom == MIN_MARKER_ZOOM
                  + ((MAX_MARKER_ZOOM - MIN_MARKER_ZOOM) * d) \div maxDepth
        next == MIN_MARKER_ZOOM
                  + ((MAX_MARKER_ZOOM - MIN_MARKER_ZOOM) * (d + 1)) \div maxDepth
    IN IF zoom < 0 THEN <<0, 1>>
       ELSE IF zoom >= MAX_MARKER_ZOOM THEN <<MAX_MARKER_ZOOM, MAX_MARKER_ZOOM>>
       ELSE <<zoom, Min({next, MAX_MARKER_ZOOM})>>

depthToZoomRange(d) ==
    LET zoom == MIN_MARKER_ZOOM
                  + ((MAX_MARKER_ZOOM - MIN_MARKER_ZOOM) * d) \div maxDepth
    IN IF zoom < 0 THEN <<0, 1>>
       ELSE IF zoom >= MAX_MARKER_ZOOM THEN <<MAX_MARKER_ZOOM, MAX_MARKER_ZOOM>>
       ELSE <<zoom, zoom + 1>>

\* the loop of substituteTerm over the parents; the local maxDepth stays -1
RECURSIVE furthestParentOf(_, _)
furthestParentOf(ps, furthestParent) ==
    IF ps = <<>> THEN furthestParent
    ELSE furthestParentOf(Tail(ps),
            IF hasAnatomicalIdentifier(Head(ps)) /\ depth(Head(ps)) > -1
            THEN Head(ps) ELSE furthestParent)

RECURSIVE substituteTerm(_)
substituteTerm(term) ==
    LET ps == parents(term)
    IN IF Len(ps) = 0 \/ ps[1] = ANATOMICAL_ROOT THEN NullTerm
       ELSE LET furthestParent == furthestParentOf(ps, NullTerm)
            IN IF furthestParent # NullTerm THEN furthestParent
               ELSE substituteTerm(ps[1])

addMarkerTerm(markerTermMap, markerTerm, datasetTerm) ==
    MapSet(markerTermMap, markerTerm,
           GetOrEmpty(markerTermMap, markerTerm) \cup {datasetTerm})

\* the loop over the raw terms without the test that keeps a term the map
\* has a feature for
RECURSIVE validatedFrom_AlwaysSubstitute(_, _)
validatedFrom_AlwaysSubstitute(terms, markerTermMap) ==
    IF terms = <<>> THEN markerTermMap
    ELSE LET term == trim(Head(terms))
         IN validatedFrom_AlwaysSubstitute(Tail(terms),
              IF term = BlankTerm THEN markerTermMap
              ELSE LET substitute == substituteTerm(term)
                   IN IF substitute # NullTerm
                      THEN addMarkerTerm(markerTermMap, substitute, term)
                      ELSE markerTermMap)

\* the loop over the raw terms that keeps a term without substitute as its
\* own marker term
RECURSIVE validatedFrom_KeepUnsubstituted(_, _)
validatedFrom_KeepUnsubstituted(terms, markerTermMap) ==
    IF terms = <<>> THEN markerTermMap
    ELSE LET term == trim(Head(terms))
         IN validatedFrom_KeepUnsubstituted(Tail(terms),
              IF term = BlankTerm THEN markerTermMap
              ELSE IF hasAnatomicalIdentifier(term)
                   THEN addMarkerTerm(markerTermMap, term, term)
              ELSE LET substitute == substituteTerm(term)
                   IN IF substitute # NullTerm
                      THEN addMarkerTerm(markerTermMap, substitute, term)
                      ELSE addMarkerTerm(markerTermMap, term, term))

\* the loop of validatedMarkerTerms over the raw terms
RECURSIVE validatedFrom(_, _)
validatedFrom(terms, markerTermMap) ==
    IF terms = <<>> THEN markerTermMap
    ELSE LET term == trim(Head(terms))
         IN validatedFrom(Tail(terms),
              IF term = BlankTerm THEN markerTermMap
              ELSE IF hasAnatomicalIdentifier(term)
                   THEN addMarkerTerm(markerTermMap, term, term)
              ELSE LET substitute == substituteTerm(term)
                   IN IF substitute # NullTerm
                      THEN addMarkerTerm(markerTermMap, substitute, term)
                      ELSE markerTermMap)

\* marker term ==> { dataset terms }
validatedMarkerTerms(terms) == validatedFrom(terms, EmptyMap)

\* st is the pair of #clustersByTerm and #descendents under construction,
\* g the connected term graph, attrs its 'terms' node attribute
RECURSIVE setZoomFromParents(_, _, _, _, _)
RECURSIVE setZoomOfParents(_, _, _, _, _, _)
setZoomFromParents(st, g, attrs, term, markerTerm) ==
    LET st1 == IF markerTerm \in DOMAIN attrs
               THEN [st EXCEPT !.descendents =
                        MapSet(@, term, GetOrEmpty(@, term) \cup attrs[markerTerm])]
               ELSE st
    IN IF term = ANATOMICAL_ROOT
       THEN [st1 EXCEPT !.clustersByTerm[term].minZoom = 0]
       ELSE setZoomOfParents(st1, g, attrs, term, markerTerm, g.parents[term])

setZoomOfParents(st, g, attrs, term, markerTerm, ps) ==
    IF ps = <<>> THEN st
    ELSE LET parent == Head(ps)
             cluster == st.clustersByTerm[term]
             parentCluster == st.clustersByTerm[parent]
             st1 == IF parentCluster.maxZoom < cluster.minZoom
                    THEN [st EXCEPT !.clustersByTerm[parent].maxZoom = cluster.minZoom]
                    ELSE st
         IN setZoomOfParents(setZoomFromParents(st1, g, attrs, parent, markerTerm),
                             g, attrs, term, markerTerm, Tail(ps))

\* setMinZoomFromRoot without the loop over the children of a deleted term
setMinZoomFromRoot_TermOnly(st, g, term) ==
    IF hasAnatomicalIdentifier(term) THEN st
    ELSE [st EXCEPT !.clustersByTerm = MapDelete(@, term)]

\* st.threw: the TypeError of writing minZoom of a cluster that is undefined
RECURSIVE setMinZoomFromRoot(_, _, _)
RECURSIVE setMinZoomOfChildren(_, _, _)
setMinZoomFromRoot(st, g, term) ==
    IF hasAnatomicalIdentifier(term) THEN st
    ELSE setMinZoomOfChildren([st EXCEPT !.clustersByTerm = MapDelete(@, term)],
                              g, children(g, term))

setMinZoomOfChildren(st, g, cs) ==
    IF cs = <<>> \/ st.threw THEN st
    ELSE LET child == Head(cs)
         IN IF child \notin DOMAIN st.clustersByTerm
            THEN [st EXCEPT !.threw = TRUE]
            ELSE setMinZoomOfChildren(
                    setMinZoomFromRoot([st EXCEPT !.clustersByTerm[child].minZoom = 0],
                                       g, child),
                    g, Tail(cs))

\* the nodes the constructor treats as terminal
terminalNodes(g) == {term \in g.nodes : term # ANATOMICAL_ROOT /\ degree(g, term) = 1}

\* the constructor's loop without the assignment of MAX_MARKER_ZOOM
RECURSIVE setZoomFromTerminals_NoSentinel(_, _, _, _)
setZoomFromTerminals_NoSentinel(st, g, attrs, terminals) ==
    IF terminals = <<>> THEN st
    ELSE setZoomFromTerminals_NoSentinel(
            setZoomFromParents(st, g, attrs, Head(terminals), Head(terminals)),
            g, attrs, Tail(terminals))

\* the constructor's loop over the terminal nodes
RECURSIVE setZoomFromTerminals(_, _, _, _)
setZoomFromTerminals(st, g, attrs, terminals) ==
    IF terminals = <<>> THEN st
    ELSE LET markerTerm == Head(terminals)
             st1 == [st EXCEPT !.clustersByTerm[markerTerm].maxZoom = MAX_MARKER_ZOOM]
         IN setZoomFromTerminals(setZoomFromParents(st1, g, attrs, markerTerm, markerTerm),
                                 g, attrs, Tail(terminals))

\* new DatasetClusterSet(dataset, flatmap)
DatasetClusterSet(dataset) ==
    LET markerTermMap == validatedMarkerTerms(dataset.terms)
        g == connectedTermGraph(DOMAIN markerTermMap)
        attrs == [n \in g.nodes |->
                    IF n \in DOMAIN markerTermMap THEN markerTermMap[n] ELSE {n}]
        st0 == [clustersByTerm |->
                    [n \in g.nodes |->
                        LET zoomRange == depthToZoomRange(depth(n))
                        IN [datasetId |-> dataset.id, markerTerm |-> n,
                            minZoom |-> zoomRange[1], maxZoom |-> zoomRange[2]]],
                descendents |-> EmptyMap,
                threw |-> FALSE]
        st1 == setZoomFromTerminals(st0, g, attrs, SortedSeq(terminalNodes(g)))
        st2 == setMinZoomFromRoot(st1, g, ANATOMICAL_ROOT)
    IN [id |-> dataset.id,
        terms |-> dataset.terms,
        markerTerms |-> DOMAIN markerTermMap,
        markerTermMap |-> markerTermMap,
        graph |-> g,
        clustersByTerm |-> IF st2.threw THEN EmptyMap ELSE st2.clustersByTerm,
        descendents |-> IF st2.threw THEN EmptyMap ELSE st2.descendents,
        threw |-> st2.threw]

\* the clusters getter
clusters(clusterSet) == Range(clusterSet.clustersByTerm)

\* before any cluster set has been built
NoClusterSet ==
    [id |-> 0, terms |-> <<>>, markerTerms |-> {}, markerTermMap |-> EmptyMap,
     graph |-> [nodes |-> {}, parents |-> EmptyMap],
     clustersByTerm |-> EmptyMap, descendents |-> EmptyMap, threw |-> FALSE]

\* the zoom levels at which addDatasetMarkers adds a cluster's dataset: every
\* integer zoom in [minZoom, maxZoom) and MAX_MARKER_ZOOM for maxZoom = MAX_MARKER_ZOOM
registeredZooms(cluster) ==
    {zoom \in Zooms : cluster.minZoom <= zoom /\ zoom < cluster.maxZoom}
        \cup (IF cluster.maxZoom = MAX_MARKER_ZOOM THEN {MAX_MARKER_ZOOM} ELSE {})

\* ------------------------------------------ ClusteredAnatomicalMarkerLayer
\* FlatMap.modelFeatureIds: a term the map has a feature for has one feature,
\* whose id is the term's number
modelFeatureIds(term) == IF hasAnatomicalIdentifier(term) THEN {term} ELSE {}

\* the fields of the layer as one record
Layer ==
    [datasetFeatureIds |-> datasetFeatureIds,
     datasetsByZoomTerm |-> datasetsByZoomTerm,
     kindByDataset |-> kindByDataset,
     kindByTerm |-> kindByTerm,
     markerTerms |-> markerTerms,
     markerTermsByZoomTerm |-> markerTermsByZoomTerm,
     multiScaleByZoomTerm |-> multiScaleByZoomTerm,
     points |-> points,
     threw |-> FALSE]

NewLayer ==
    [datasetFeatureIds |-> EmptyMap, datasetsByZoomTerm |-> EmptyMap,
     kindByDataset |-> EmptyMap, kindByTerm |-> EmptyMap, markerTerms |-> EmptyMap,
     markerTermsByZoomTerm |-> EmptyMap, multiScaleByZoomTerm |-> EmptyMap,
     points |-> {}, threw |-> FALSE]

\* Map.get(key) === 'multiscale'
isMultiscale(kinds, key) == key \in DOMAIN kinds /\ kinds[key] = "multiscale"

\* the assignment without the OR: the last value written stays
orAssign_Overwrite(array, zoom, value) ==
    IF zoom + 1 <= Len(array)
    THEN [array EXCEPT ![zoom + 1] = value]
    ELSE Append(array, value)

\* array[zoom] ||= value on an array of booleans: an index one past the end
\* is undefined, and the assignment extends the array
orAssign(array, zoom, value) ==
    IF zoom + 1 <= Len(array)
    THEN [array EXCEPT ![zoom + 1] = @ \/ value]
    ELSE Append(array, value)

RECURSIVE orAssignAll(_, _, _)
orAssignAll(array, zooms, value) ==
    IF zooms = <<>> THEN array
    ELSE orAssignAll(orAssign(array, Head(zooms), value), Tail(zooms), value)

\* #update: one marker point for each feature of each term of #datasetsByZoomTerm
update(l) ==
    [l EXCEPT !.points = UNION {
        {[featureId |-> featureId,
          models |-> term,
          iconZoom |-> [i \in DOMAIN l.multiScaleByZoomTerm[term] |->
                          IF l.multiScaleByZoomTerm[term][i]
                          THEN "multiscale-clustered-marker"
                          ELSE "dataset-clustered-marker"],
          zoomCount |-> [i \in DOMAIN l.datasetsByZoomTerm[term] |->
                          Cardinality(l.datasetsByZoomTerm[term][i])]] :
            featureId \in modelFeatureIds(term)} :
        term \in DOMAIN l.datasetsByZoomTerm}]

\* the body of addDatasetMarkers' loop for one dataset with a cluster set
addClusteredSet(l, dataset, clusteredSet_) ==
    LET kinds == IF dataset.kind # NoKind
                 THEN MapSet(l.kindByDataset, dataset.id, dataset.kind)
                 ELSE l.kindByDataset
        multiscale == isMultiscale(kinds, dataset.id)
        clusterTerms == DOMAIN clusteredSet_.clustersByTerm
        known == DOMAIN l.datasetsByZoomTerm
        zooms(term) == registeredZooms(clusteredSet_.clustersByTerm[term])
        emptySets == [i \in 1..(MAX_MARKER_ZOOM + 1) |-> {}]
        zoomDatasets(term) == IF term \in known THEN l.datasetsByZoomTerm[term]
                              ELSE emptySets
        zoomMultiscale(term) == IF term \in known THEN l.multiScaleByZoomTerm[term]
                                ELSE [i \in 1..(MAX_MARKER_ZOOM + 1) |-> FALSE]
        zoomFeatureTerms(term) == IF term \in known THEN l.markerTermsByZoomTerm[term]
                                  ELSE emptySets
        descendentsOf(term) == GetOrEmpty(clusteredSet_.descendents, term)
        terminals == {term \in clusterTerms :
                        clusteredSet_.clustersByTerm[term].maxZoom = MAX_MARKER_ZOOM}
        allDescendents == UNION {clusteredSet_.descendents[term] :
                                    term \in DOMAIN clusteredSet_.descendents}
    IN [l EXCEPT
          !.kindByDataset = kinds,
          !.datasetsByZoomTerm =
              [term \in known \cup clusterTerms |->
                  IF term \in clusterTerms
                  THEN [i \in DOMAIN zoomDatasets(term) |->
                          IF i - 1 \in zooms(term)
                          THEN zoomDatasets(term)[i] \cup {dataset.id}
                          ELSE zoomDatasets(term)[i]]
                  ELSE l.datasetsByZoomTerm[term]],
          !.multiScaleByZoomTerm =
              [term \in (DOMAIN l.multiScaleByZoomTerm) \cup clusterTerms |->
                  IF term \in clusterTerms
                  THEN orAssignAll(zoomMultiscale(term), SortedSeq(zooms(term)), multiscale)
                  ELSE l.multiScaleByZoomTerm[term]],
          !.markerTermsByZoomTerm =
              [term \in (DOMAIN l.markerTermsByZoomTerm) \cup clusterTerms |->
                  IF term \in clusterTerms
                  THEN [i \in DOMAIN zoomFeatureTerms(term) |->
                          IF i - 1 \in zooms(term)
                          THEN zoomFeatureTerms(term)[i] \cup descendentsOf(term)
                          ELSE zoomFeatureTerms(term)[i]]
                  ELSE l.markerTermsByZoomTerm[term]],
          !.datasetFeatureIds =
              IF terminals = {} THEN @
              ELSE MapSet(@, dataset.id,
                          GetOrEmpty(@, dataset.id)
                              \cup UNION {modelFeatureIds(term) : term \in terminals}),
          !.markerTerms =
              [term \in (DOMAIN l.markerTerms) \cup DOMAIN clusteredSet_.descendents |->
                  GetOrEmpty(l.markerTerms, term)
                      \cup GetOrEmpty(clusteredSet_.descendents, term)],
          !.kindByTerm =
              [term \in (DOMAIN l.kindByTerm) \cup allDescendents |->
                  IF term \in allDescendents /\ ~isMultiscale(l.kindByTerm, term)
                  THEN (IF dataset.kind # NoKind THEN dataset.kind ELSE "dataset")
                  ELSE l.kindByTerm[term]]]

\* addDatasetMarkers' loop over the datasets; a constructor that throws ends
\* the call where it is
RECURSIVE addDatasets(_, _)
addDatasets(l, datasets) ==
    IF datasets = <<>> \/ l.threw THEN l
    ELSE LET dataset == Head(datasets)
         IN IF Len(dataset.terms) = 0 THEN addDatasets(l, Tail(datasets))
            ELSE LET clusteredSet_ == DatasetClusterSet(dataset)
                 IN IF clusteredSet_.threw THEN [l EXCEPT !.threw = TRUE]
                    ELSE addDatasets(addClusteredSet(l, dataset, clusteredSet_),
                                     Tail(datasets))

addDatasetMarkers(l, datasets) ==
    LET added == addDatasets(l, datasets)
    IN IF added.threw THEN added ELSE update(added)

clearDatasetMarkers(l) ==
    update([l EXCEPT !.datasetFeatureIds = EmptyMap,
                     !.datasetsByZoomTerm = EmptyMap,
                     !.kindByDataset = EmptyMap,
                     !.multiScaleByZoomTerm = EmptyMap])

\* the array of flags removeDatasetMarker builds for one term: Array(MAX_MARKER_ZOOM)
\* filled with false, or-assigned at every zoom that holds another dataset
RECURSIVE multiscaleWithout(_, _, _, _, _)
multiscaleWithout(array, zoomDatasets, zoom, kinds, datasetId) ==
    IF zoom + 1 > Len(zoomDatasets) THEN array
    ELSE LET others == zoomDatasets[zoom + 1] \ {datasetId}
             array1 == IF others = {} THEN array
                       ELSE orAssign(array, zoom,
                                     \E dsId \in others : isMultiscale(kinds, dsId))
         IN multiscaleWithout(array1, zoomDatasets, zoom + 1, kinds, datasetId)

\* the deletion that stops one entry short of the end of the array
deleteFromZooms_ShortByOne(zoomDatasets, datasetId) ==
    [i \in DOMAIN zoomDatasets |->
        IF i <= MAX_MARKER_ZOOM THEN zoomDatasets[i] \ {datasetId} ELSE zoomDatasets[i]]

\* datasetIds.delete(datasetId) for every entry of a term's zoomDatasets
deleteFromZooms(zoomDatasets, datasetId) ==
    [i \in DOMAIN zoomDatasets |-> zoomDatasets[i] \ {datasetId}]

removeDatasetMarker(l, datasetId) ==
    update([l EXCEPT
        !.datasetFeatureIds = MapDelete(@, datasetId),
        !.datasetsByZoomTerm =
            [term \in DOMAIN @ |-> deleteFromZooms(@[term], datasetId)],
        !.multiScaleByZoomTerm =
            [term \in (DOMAIN @) \cup DOMAIN l.datasetsByZoomTerm |->
                IF term \in DOMAIN l.datasetsByZoomTerm
                THEN multiscaleWithout([i \in 1..MAX_MARKER_ZOOM |-> FALSE],
                                       l.datasetsByZoomTerm[term], 0,
                                       l.kindByDataset, datasetId)
                ELSE @[term]],
        !.kindByDataset = MapDelete(@, datasetId)])

\* datasetIds(term, zoomLevel), the list read as a set
datasetIds(l, term, zoomLevel) ==
    IF term \in DOMAIN l.datasetsByZoomTerm
    THEN l.datasetsByZoomTerm[term][zoomLevel + 1]
    ELSE {}

Datasets(lists) == [id : DatasetIds, kind : Kinds, terms : lists]

\* ------------------------------------------------------------- PaneManager
\* the bottom pane's id; the map panes are numbered from 1 by PaneSet
BottomPane == 0
NoPane == -1
NoFlatMap == 0
maxPanes == MaxPanes
Uuids == 1..MaxMaps

\* the map server's index of a map: map 1 is anatomical, the others are
\* functional, and map 2 is a control map
mapStyle(mapUuid) == IF mapUuid = 1 THEN "anatomical" ELSE "functional"
isControl(mapUuid) == mapUuid = 2

PaneManager ==
    [activeBottom |-> activeBottom, activeMaps |-> activeMaps,
     mapsByPane |-> mapsByPane, mapPanes |-> mapPanes,
     nextPaneNumber |-> nextPaneNumber, mode |-> mode]

\* new PaneManager(containerId, maxPanes): one map pane, the bottom pane hidden
NewPaneManager ==
    /\ activeBottom = FALSE
    /\ activeMaps = 0
    /\ mapsByPane = <<>>
    /\ mapPanes = <<1>>
    /\ nextPaneNumber = 2
    /\ mode = "single"
    /\ calls = <<>>

\* Map.has, Map.set (an existing key keeps its place) and Map.delete on
\* #mapsByPane, a sequence of [pane, uuid, flatmap] entries
mapsByPaneHas(entries, paneId) == \E i \in DOMAIN entries : entries[i].pane = paneId
mapsByPaneSet(entries, paneId, mapUuid, flatmap) ==
    LET entry == [pane |-> paneId, uuid |-> mapUuid, flatmap |-> flatmap]
    IN IF mapsByPaneHas(entries, paneId)
       THEN [i \in DOMAIN entries |->
                IF entries[i].pane = paneId THEN entry ELSE entries[i]]
       ELSE Append(entries, entry)
mapsByPaneDelete(entries, paneId) ==
    LET keep(e) == e.pane # paneId IN SelectSeq(entries, keep)

\* PaneSet.lastPane, PaneSet.addPane and PaneSet.removePane
lastPane(pm) == pm.mapPanes[Len(pm.mapPanes)]
addPane(pm) ==
    [pm EXCEPT !.mapPanes = Append(@, pm.nextPaneNumber),
               !.nextPaneNumber = @ + 1]
removePane(paneIds, paneId) ==
    LET keep(p) == p # paneId
    IN IF Len(paneIds) > 1 THEN SelectSeq(paneIds, keep) ELSE paneIds

\* PaneManager.#closePane(paneId)
closePane(pm, paneId) ==
    LET closed ==
            IF paneId = BottomPane
            THEN [pm EXCEPT !.activeBottom = FALSE]
            ELSE IF pm.activeMaps > 0
            THEN [pm EXCEPT !.mapPanes = IF Len(pm.mapPanes) > 1
                                         THEN removePane(pm.mapPanes, paneId)
                                         ELSE @,
                            !.activeMaps = @ - 1]
            ELSE pm
    IN [closed EXCEPT !.mapsByPane = mapsByPaneDelete(@, paneId)]

\* PaneManager.closeMaps(): every entry of #mapsByPane, in insertion order
RECURSIVE closeEntries(_, _)
closeEntries(pm, entries) ==
    IF entries = <<>> THEN pm
    ELSE closeEntries(closePane(pm, Head(entries).pane), Tail(entries))
closeMaps(pm) == closeEntries(pm, pm.mapsByPane)

\* loadMap, from the map index to the pane the map is loaded into
choosePane(pm, mapUuid, newPane) ==
    IF pm.mode = "single" \/ maxPanes <= 1
    THEN [pm |-> pm, pane |-> lastPane(pm)]
    ELSE IF isControl(mapUuid)
    THEN [pm |-> [pm EXCEPT !.activeBottom = TRUE], pane |-> BottomPane]
    ELSE IF Len(pm.mapPanes) >= maxPanes
    THEN [pm |-> pm, pane |-> lastPane(pm)]
    ELSE LET added == IF newPane /\ pm.activeMaps # 0 THEN addPane(pm) ELSE pm
         IN [pm |-> [added EXCEPT !.activeMaps = @ + 1], pane |-> lastPane(added)]
mapIndexed(pm, mapUuid, newPane) ==
    LET newMode == IF mapStyle(mapUuid) = "functional" THEN "multiple" ELSE "single"
        switched == IF pm.mode # newMode
                    THEN [closeMaps(pm) EXCEPT !.mode = newMode]
                    ELSE pm
    IN choosePane(switched, mapUuid, newPane)

\* the open map loadMap finds for a uuid, or NoFlatMap
openMap(entries, mapUuid) ==
    IF \E i \in DOMAIN entries : entries[i].uuid = mapUuid
    THEN entries[Min({i \in DOMAIN entries : entries[i].uuid = mapUuid})].flatmap
    ELSE NoFlatMap

\* ------------------------------------------------------------- MarkerLayer
NoMarker == 0
FeatureIds == 1..MaxFeatureId

MarkerLayer ==
    [featureIndexById |-> featureIndexById,
     featureToMarkerPoint |-> featureToMarkerPoint,
     features |-> features, nextMarkerId |-> nextMarkerId]

NewMarkerLayer ==
    /\ featureIndexById = EmptyMap
    /\ featureToMarkerPoint = EmptyMap
    /\ features = <<>>
    /\ nextMarkerId = 1
    /\ lastMarkerOp = [op |-> "new", id |-> NoMarker, indexed |-> FALSE]

\* Array.prototype.splice(start, deleteCount) on a sequence holding the
\* array's index i at i+1
splice(array, start, deleteCount) ==
    LET first == Min({start, Len(array)})
        count == Min({deleteCount, Len(array) - first})
    IN SubSeq(array, 1, first) \o SubSeq(array, first + count + 1, Len(array))

\* addMarker(annotation, options) for an annotation with a marker position
addMarker(ml, featureId) ==
    LET markerId == ml.nextMarkerId
        markerPoint == [id |-> markerId, featureId |-> featureId, count |-> 1]
    IN [featureIndexById |-> MapSet(ml.featureIndexById, markerId, Len(ml.features)),
        featureToMarkerPoint |-> MapSet(ml.featureToMarkerPoint, featureId, markerId),
        features |-> Append(ml.features, markerPoint),
        nextMarkerId |-> markerId + 1]

\* updateMarkerCount(markerId)
updateMarkerCount(ml, markerId) ==
    IF markerId \in DOMAIN ml.featureIndexById
    THEN LET featureIndex == ml.featureIndexById[markerId]
         IN [ml EXCEPT !.features[featureIndex + 1].count = @ + 1]
    ELSE ml

\* clearMarkers()
clearMarkers(ml) ==
    [ml EXCEPT !.featureIndexById = EmptyMap, !.features = <<>>]

\* removeMarker(markerId)
removeMarker(ml, markerId) ==
    IF markerId \in DOMAIN ml.featureIndexById
    THEN LET featureIndex == ml.featureIndexById[markerId]
         IN [ml EXCEPT !.featureIndexById = MapDelete(@, markerId),
                       !.features = splice(@, featureIndex, 0)]
    ELSE ml

\* ---------------------------------------------------------- specifications
EmptyLayer ==
    /\ datasetFeatureIds = EmptyMap
    /\ datasetsByZoomTerm = EmptyMap
    /\ kindByDataset = EmptyMap
    /\ kindByTerm = EmptyMap
    /\ markerTerms = EmptyMap
    /\ markerTermsByZoomTerm = EmptyMap
    /\ multiScaleByZoomTerm = EmptyMap
    /\ points = {}
    /\ loaded = EmptyMap
    /\ lastOp = [op |-> "new", id |-> 0, threw |-> FALSE]
    /\ before = EmptyMap
    /\ nops = 0

\* a term graph with maxDepth >= 1 and any feature-presence oracle
InitCluster ==
    /\ hierarchy \in Hierarchies
    /\ maxDepth >= 1
    /\ mappedTerms \in SUBSET Terms
    /\ clusteredSet = NoClusterSet
    /\ EmptyLayer
    /\ NewPaneManager
    /\ NewMarkerLayer

\* new DatasetClusterSet(dataset, flatmap) for any dataset descriptor
Construct ==
    /\ nops = 0
    /\ \E terms \in SeqsUpTo(RawTerms, MaxTermsLen) :
          clusteredSet' = DatasetClusterSet([id |-> 1, kind |-> NoKind, terms |-> terms])
    /\ nops' = nops + 1
    /\ lastOp' = [op |-> "construct", id |-> 1, threw |-> clusteredSet'.threw]
    /\ UNCHANGED <<hierarchy, mappedTerms, layerVars, loaded, before>>
    /\ UNCHANGED <<paneVars, markerVars>>

NextCluster == Construct

SpecCluster == InitCluster /\ [][NextCluster]_vars

\* the layer's fields after a call that returned l
SetLayer(l) ==
    /\ datasetFeatureIds' = l.datasetFeatureIds
    /\ datasetsByZoomTerm' = l.datasetsByZoomTerm
    /\ kindByDataset' = l.kindByDataset
    /\ kindByTerm' = l.kindByTerm
    /\ markerTerms' = l.markerTerms
    /\ markerTermsByZoomTerm' = l.markerTermsByZoomTerm
    /\ multiScaleByZoomTerm' = l.multiScaleByZoomTerm
    /\ points' = l.points

\* the hierarchies of the layer's specification: a chain below the root, and
\* two children of the root that share the remaining terms as children
Chain == [t \in Terms |-> IF t = ANATOMICAL_ROOT THEN <<>> ELSE <<t - 1>>]
Diamond == [t \in Terms |-> IF t = ANATOMICAL_ROOT THEN <<>>
                            ELSE IF t <= 2 THEN <<ANATOMICAL_ROOT>> ELSE <<1, 2>>]

\* the term lists of the datasets added to the layer: none, an inner term of
\* the hierarchy, its deepest term
LayerTermLists == {<<>>, <<1>>, <<MaxTerm>>}

Init ==
    /\ hierarchy \in {Chain, Diamond}
    /\ mappedTerms \in {Terms, Terms \ {1}}
    /\ clusteredSet = NoClusterSet
    /\ EmptyLayer
    /\ NewPaneManager
    /\ NewMarkerLayer

\* addDatasetMarkers([dataset])
Add ==
    /\ nops < MaxOps
    /\ \E dataset \in Datasets(LayerTermLists) :
          \E l \in {addDatasetMarkers(Layer, <<dataset>>)} :
          LET built == Len(dataset.terms) > 0
          IN /\ SetLayer(l)
             /\ clusteredSet' = IF built THEN DatasetClusterSet(dataset) ELSE clusteredSet
             /\ loaded' = IF built /\ ~l.threw
                          THEN MapSet(loaded, dataset.id, dataset) ELSE loaded
             /\ lastOp' = [op |-> "add", id |-> dataset.id, threw |-> l.threw]
    /\ before' = datasetsByZoomTerm
    /\ nops' = nops + 1
    /\ UNCHANGED <<hierarchy, mappedTerms, paneVars, markerVars>>

\* removeDatasetMarker(datasetId)
Remove ==
    /\ nops < MaxOps
    /\ \E datasetId \in DatasetIds :
          /\ \E l \in {removeDatasetMarker(Layer, datasetId)} : SetLayer(l)
          /\ loaded' = MapDelete(loaded, datasetId)
          /\ lastOp' = [op |-> "remove", id |-> datasetId, threw |-> FALSE]
    /\ before' = datasetsByZoomTerm
    /\ nops' = nops + 1
    /\ UNCHANGED <<hierarchy, mappedTerms, clusteredSet, paneVars, markerVars>>

\* clearDatasetMarkers()
Clear ==
    /\ nops < MaxOps
    /\ \E l \in {clearDatasetMarkers(Layer)} : SetLayer(l)
    /\ loaded' = EmptyMap
    /\ lastOp' = [op |-> "clear", id |-> 0, threw |-> FALSE]
    /\ before' = datasetsByZoomTerm
    /\ nops' = nops + 1
    /\ UNCHANGED <<hierarchy, mappedTerms, clusteredSet, paneVars, markerVars>>

Next == Add \/ Remove \/ Clear

Spec == Init /\ [][Next]_vars

\* ------------------------------------------------- PaneManager in a viewer
clusterVars == <<hierarchy, mappedTerms, clusteredSet, layerVars, historyVars>>

SetPaneManager(pm) ==
    /\ activeBottom' = pm.activeBottom
    /\ activeMaps' = pm.activeMaps
    /\ mapsByPane' = pm.mapsByPane
    /\ mapPanes' = pm.mapPanes
    /\ nextPaneNumber' = pm.nextPaneNumber
    /\ mode' = pm.mode

InitPanes ==
    /\ hierarchy = Chain
    /\ mappedTerms = Terms
    /\ clusteredSet = NoClusterSet
    /\ EmptyLayer
    /\ NewPaneManager
    /\ NewMarkerLayer

\* loadMap(viewer, mapId, callback, options, newPane) up to
\* `await viewer.findMap(mapId)`
LoadMap ==
    /\ Len(calls) < MaxCalls
    /\ \E mapUuid \in Uuids, newPane \in BOOLEAN :
          calls' = Append(calls, [pc |-> "findMap", mapUuid |-> mapUuid,
                                  newPane |-> newPane, pane |-> NoPane,
                                  result |-> NoFlatMap])
    /\ UNCHANGED <<activeBottom, activeMaps, mapsByPane, mapPanes,
                   nextPaneNumber, mode>>
    /\ UNCHANGED <<clusterVars, markerVars>>

\* findMap has resolved: the search of #mapsByPane, up to
\* `await viewer.mapServer.mapIndex(mapUuid)`
FindMapResolved ==
    /\ \E c \in DOMAIN calls :
          /\ calls[c].pc = "findMap"
          /\ LET flatmap == openMap(mapsByPane, calls[c].mapUuid)
             IN calls' = IF flatmap # NoFlatMap
                         THEN [calls EXCEPT ![c].pc = "returned",
                                            ![c].result = flatmap]
                         ELSE [calls EXCEPT ![c].pc = "mapIndex"]
    /\ UNCHANGED <<activeBottom, activeMaps, mapsByPane, mapPanes,
                   nextPaneNumber, mode>>
    /\ UNCHANGED <<clusterVars, markerVars>>

\* mapIndex has resolved: the mode switch and the choice of a pane, up to
\* `await viewer.loadMap(mapId, callback, options)`
MapIndexResolved ==
    /\ \E c \in DOMAIN calls :
          /\ calls[c].pc = "mapIndex"
          /\ \E chosen \in {mapIndexed(PaneManager, calls[c].mapUuid,
                                       calls[c].newPane)} :
                /\ SetPaneManager(chosen.pm)
                /\ calls' = [calls EXCEPT ![c].pc = "loadMap",
                                          ![c].pane = chosen.pane]
    /\ UNCHANGED <<clusterVars, markerVars>>

\* viewer.loadMap has resolved with a map, or has failed
LoadResolved ==
    /\ \E c \in DOMAIN calls, loadedMap \in BOOLEAN :
          /\ calls[c].pc = "loadMap"
          /\ IF loadedMap
             THEN /\ SetPaneManager(
                        [PaneManager EXCEPT !.mapsByPane =
                            mapsByPaneSet(@, calls[c].pane, calls[c].mapUuid, c)])
                  /\ calls' = [calls EXCEPT ![c].pc = "loaded", ![c].result = c]
             ELSE /\ SetPaneManager(closePane(PaneManager, calls[c].pane))
                  /\ calls' = [calls EXCEPT ![c].pc = "failed"]
    /\ UNCHANGED <<clusterVars, markerVars>>

\* #closePaneCallback('close-pane', {container: paneId}) from an open map
ClosePaneCallback ==
    /\ \E i \in DOMAIN mapsByPane :
          SetPaneManager(closePane(PaneManager, mapsByPane[i].pane))
    /\ UNCHANGED calls
    /\ UNCHANGED <<clusterVars, markerVars>>

NextPanes ==
    LoadMap \/ FindMapResolved \/ MapIndexResolved \/ LoadResolved
        \/ ClosePaneCallback

SpecPanes == InitPanes /\ [][NextPanes]_vars

\* -------------------------------------------------- MarkerLayer in a viewer
SetMarkerLayer(ml) ==
    /\ featureIndexById' = ml.featureIndexById
    /\ featureToMarkerPoint' = ml.featureToMarkerPoint
    /\ features' = ml.features
    /\ nextMarkerId' = ml.nextMarkerId

MarkerIds == 1..MaxMarkers

InitMarkers ==
    /\ hierarchy = Chain
    /\ mappedTerms = Terms
    /\ clusteredSet = NoClusterSet
    /\ EmptyLayer
    /\ NewPaneManager
    /\ NewMarkerLayer

\* addMarker(annotation, options)
AddMarker ==
    /\ nextMarkerId <= MaxMarkers
    /\ \E featureId \in FeatureIds :
          SetMarkerLayer(addMarker(MarkerLayer, featureId))
    /\ lastMarkerOp' = [op |-> "add", id |-> nextMarkerId, indexed |-> FALSE]
    /\ UNCHANGED <<clusterVars, paneVars>>

\* updateMarkerCount(markerId)
UpdateMarkerCount ==
    /\ \E markerId \in MarkerIds :
          /\ markerId \in DOMAIN featureIndexById =>
                features[featureIndexById[markerId] + 1].count < MaxCount
          /\ SetMarkerLayer(updateMarkerCount(MarkerLayer, markerId))
          /\ lastMarkerOp' = [op |-> "update", id |-> markerId,
                              indexed |-> markerId \in DOMAIN featureIndexById]
    /\ UNCHANGED <<clusterVars, paneVars>>

\* clearMarkers()
ClearMarkers ==
    /\ SetMarkerLayer(clearMarkers(MarkerLayer))
    /\ lastMarkerOp' = [op |-> "clear", id |-> NoMarker, indexed |-> FALSE]
    /\ UNCHANGED <<clusterVars, paneVars>>

\* removeMarker(markerId)
RemoveMarker ==
    /\ \E markerId \in MarkerIds :
          /\ SetMarkerLayer(removeMarker(MarkerLayer, markerId))
          /\ lastMarkerOp' = [op |-> "remove", id |-> markerId,
                              indexed |-> markerId \in DOMAIN featureIndexById]
    /\ UNCHANGED <<clusterVars, paneVars>>

NextMarkers == AddMarker \/ UpdateMarkerCount \/ ClearMarkers \/ RemoveMarker

SpecMarkers == InitMarkers /\ [][NextMarkers]_vars

\* ------------------------------------------------------------------ claims
\* the zoom levels at which addDatasetMarkers registers a cluster's dataset
\* under the cluster's term
registeredAt(clusterSet, term) ==
    IF term \in DOMAIN clusterSet.clustersByTerm
    THEN registeredZooms(clusterSet.clustersByTerm[term])
    ELSE {}

\* the ancestors of a node within a connected subgraph
RECURSIVE subgraphAncestors(_, _)
subgraphAncestors(g, term) ==
    Range(g.parents[term])
        \cup UNION {subgraphAncestors(g, p) : p \in Range(g.parents[term])}

\* the leaves of a connected subgraph: the nodes below the root without children
subgraphLeaves(g) ==
    {term \in g.nodes : term # ANATOMICAL_ROOT /\ children(g, term) = <<>>}

Constructed == lastOp.op = "construct" /\ ~clusteredSet.threw

\* C1: after construction, every parent p of a non-root node n of the
\* dataset's subgraph has cluster(p).maxZoom >= cluster(n).minZoom
C1_MonotonePropagation ==
    Constructed =>
        \A n \in clusteredSet.graph.nodes \ {ANATOMICAL_ROOT} :
            \A p \in Range(clusteredSet.graph.parents[n]) :
                {n, p} \subseteq DOMAIN clusteredSet.clustersByTerm =>
                    clusteredSet.clustersByTerm[p].maxZoom
                        >= clusteredSet.clustersByTerm[n].minZoom

\* C2: no zoom level has the dataset registered both under a term and under
\* an ancestor of that term in the dataset's subgraph
C2_NoAncestorOverlap ==
    Constructed =>
        \A n \in clusteredSet.graph.nodes :
            \A a \in subgraphAncestors(clusteredSet.graph, n) :
                registeredAt(clusteredSet, a) \cap registeredAt(clusteredSet, n) = {}

\* C3: at every zoom level in 0..MAX_MARKER_ZOOM the dataset is registered
\* under each leaf of its subgraph or under an ancestor of the leaf that the
\* map has a feature for
C3_NeverDisappears ==
    Constructed =>
        \A t \in subgraphLeaves(clusteredSet.graph) :
            \A z \in Zooms :
                \/ z \in registeredAt(clusteredSet, t)
                \/ \E a \in subgraphAncestors(clusteredSet.graph, t) :
                      /\ hasAnatomicalIdentifier(a)
                      /\ z \in registeredAt(clusteredSet, a)

\* C4: after construction the cluster record of the root has minZoom = 0
C4_RootMinZoomZero ==
    Constructed =>
        (ANATOMICAL_ROOT \in DOMAIN clusteredSet.clustersByTerm =>
            clusteredSet.clustersByTerm[ANATOMICAL_ROOT].minZoom = 0)

\* C5: after construction every node of the subgraph other than the root
\* that has degree 1 has a cluster whose maxZoom is MAX_MARKER_ZOOM
C5_TerminalSentinel ==
    Constructed =>
        \A n \in terminalNodes(clusteredSet.graph) :
            /\ n \in DOMAIN clusteredSet.clustersByTerm
            /\ clusteredSet.clustersByTerm[n].maxZoom = MAX_MARKER_ZOOM

\* two terminals whose propagation met in a common parent, one of them born
\* with a lower maxZoom, and a root that setMinZoomFromRoot removed
C5_Witness ==
    /\ Constructed
    /\ ~hasAnatomicalIdentifier(ANATOMICAL_ROOT)
    /\ \E m, n \in terminalNodes(clusteredSet.graph) :
          /\ m # n
          /\ Range(clusteredSet.graph.parents[m])
                \cap Range(clusteredSet.graph.parents[n]) # {}
          /\ depthToZoomRange(depth(n))[2] < MAX_MARKER_ZOOM
          /\ clusteredSet.clustersByTerm[n].minZoom = 0

\* C6: every cluster record has integer bounds with
\* 0 <= minZoom <= maxZoom <= MAX_MARKER_ZOOM
C6_ZoomRangeValid ==
    \A cluster \in clusters(clusteredSet) :
        /\ cluster.minZoom \in Zooms
        /\ cluster.maxZoom \in Zooms
        /\ cluster.minZoom <= cluster.maxZoom

\* a record of a term of depth -1, and a record whose band was widened
C6_Witness ==
    /\ Constructed
    /\ \E cluster \in clusters(clusteredSet) : depth(cluster.markerTerm) = -1
    /\ \E cluster \in clusters(clusteredSet) : cluster.maxZoom > cluster.minZoom + 1

\* the answers of the layer's queries for a term and a zoom level
multiscaleAt(l, term, zoomLevel) ==
    /\ term \in DOMAIN l.multiScaleByZoomTerm
    /\ zoomLevel + 1 <= Len(l.multiScaleByZoomTerm[term])
    /\ l.multiScaleByZoomTerm[term][zoomLevel + 1]

\* the terms and kinds of markerTerms(term) at a zoom level, a term without
\* a record read as having none
markerTermsAt(l, term, zoomLevel) ==
    IF term \in DOMAIN l.markerTermsByZoomTerm
    THEN {[term |-> t,
           kind |-> IF t \in DOMAIN l.kindByTerm THEN l.kindByTerm[t] ELSE "dataset"] :
            t \in l.markerTermsByZoomTerm[term][zoomLevel + 1]}
    ELSE {}

\* every answer the layer gives
Observable(l) ==
    [datasetIds |-> [term \in Terms |-> [z \in Zooms |-> datasetIds(l, term, z)]],
     multiscale |-> [term \in Terms |-> [z \in Zooms |-> multiscaleAt(l, term, z)]],
     markerTerms |-> [term \in Terms |-> [z \in Zooms |-> markerTermsAt(l, term, z)]],
     datasetFeatureIds |-> l.datasetFeatureIds]

\* the dataset set of a term and zoom level built from scratch: the loaded
\* datasets whose cluster set registers the term at the zoom level
scratchDatasetIds(term, zoomLevel) ==
    {id \in DOMAIN loaded :
        zoomLevel \in registeredAt(DatasetClusterSet(loaded[id]), term)}

\* C7: after any sequence of calls the per-term per-zoom dataset sets equal
\* the sets built from scratch from the descriptors of the loaded datasets
C7_DerivedView ==
    \A term \in Terms : \A z \in Zooms :
        datasetIds(Layer, term, z) = scratchDatasetIds(term, z)

\* C8: adding a dataset that is not loaded and removing it again restores
\* every answer of the layer
C8_AddRemoveRestores ==
    \A dataset \in Datasets(LayerTermLists) :
        dataset.id \notin DOMAIN loaded =>
            Observable(removeDatasetMarker(addDatasetMarkers(Layer, <<dataset>>),
                                           dataset.id))
                = Observable(Layer)

\* the per-zoom dataset set of a term in a #datasetsByZoomTerm map
setAt(byZoomTerm, term, zoomLevel) ==
    IF term \in DOMAIN byZoomTerm THEN byZoomTerm[term][zoomLevel + 1] ELSE {}

\* C9: removeDatasetMarker(d) takes d out of every per-term per-zoom set and
\* leaves the membership of every other dataset as it was
C9_RemoveFrame ==
    lastOp.op = "remove" =>
        /\ DOMAIN datasetsByZoomTerm = DOMAIN before
        /\ \A term \in Terms : \A z \in Zooms :
              setAt(datasetsByZoomTerm, term, z) = setAt(before, term, z) \ {lastOp.id}

\* two datasets at one term and zoom level, and the removal of one of them
C9_Witness ==
    /\ lastOp.op = "remove"
    /\ \E term \in Terms : \E z \in Zooms : \E other \in DatasetIds \ {lastOp.id} :
          /\ setAt(before, term, z) = {lastOp.id, other}
          /\ setAt(datasetsByZoomTerm, term, z) = {other}

\* C10: the multiscale flag of a term and zoom level is true exactly when a
\* dataset in the dataset set of that term and zoom level was declared
\* with kind 'multiscale'
C10_MultiscaleFlag ==
    \A term \in DOMAIN datasetsByZoomTerm : \A z \in Zooms :
        multiscaleAt(Layer, term, z)
            <=> \E id \in datasetIds(Layer, term, z) :
                    id \in DOMAIN loaded /\ loaded[id].kind = "multiscale"

\* C11: after clearDatasetMarkers every query answers as on a freshly
\* constructed layer
C11_ClearResets ==
    lastOp.op = "clear" => Observable(Layer) = Observable(NewLayer)

\* the original terms the loaded datasets represent under a term at a zoom
\* level: the descendents of the term in every loaded dataset's cluster set
\* that registers the term at the zoom level
scratchMarkerTerms(term, zoomLevel) ==
    UNION {GetOrEmpty(DatasetClusterSet(loaded[id]).descendents, term) :
            id \in {i \in DOMAIN loaded :
                      zoomLevel \in registeredAt(DatasetClusterSet(loaded[i]), term)}}

\* C12: markerTerms(term) at zoom z returns exactly the original terms that
\* the currently loaded datasets represent under term at zoom z
C12_MarkerTermsExact ==
    \A term \in Terms : \A z \in Zooms :
        {e.term : e \in markerTermsAt(Layer, term, z)} = scratchMarkerTerms(term, z)

\* the original terms a dataset contributes: the dataset terms its validated
\* marker terms stand for
contributedTerms(dataset) ==
    UNION Range(validatedMarkerTerms(dataset.terms))

\* C13: an entry returned by markerTerms has kind 'multiscale' exactly when
\* a loaded dataset of kind 'multiscale' contributes its term
C13_MarkerTermKinds ==
    \A term \in Terms : \A z \in Zooms :
        \A e \in markerTermsAt(Layer, term, z) :
            /\ e.kind \in {"dataset", "multiscale"}
            /\ e.kind = "multiscale"
                  <=> \E id \in DOMAIN loaded :
                          /\ loaded[id].kind = "multiscale"
                          /\ e.term \in contributedTerms(loaded[id])

\* the feature ids of the terminal clusters of a dataset's cluster set
terminalFeatureIds(dataset) ==
    UNION {modelFeatureIds(cluster.markerTerm) :
            cluster \in {c \in clusters(DatasetClusterSet(dataset)) :
                            c.maxZoom = MAX_MARKER_ZOOM}}

\* C14: the dataset-to-feature-ids map holds for each loaded dataset the
\* feature ids of its terminal clusters and nothing for any other dataset
C14_DatasetFeatureIds ==
    /\ DOMAIN datasetFeatureIds \subseteq DOMAIN loaded
    /\ \A id \in DOMAIN loaded :
          GetOrEmpty(datasetFeatureIds, id) = terminalFeatureIds(loaded[id])

\* the parents of a term that the map has a feature for
presentParents(term) == {p \in Range(parents(term)) : hasAnatomicalIdentifier(p)}

\* the dataset terms of a constructed cluster set that were substituted,
\* each with its substitute
substitutions(clusterSet) ==
    {<<t, m>> \in Terms \X Terms :
        /\ m \in DOMAIN clusterSet.markerTermMap
        /\ t \in clusterSet.markerTermMap[m]
        /\ ~hasAnatomicalIdentifier(t)}

\* C15: the substitute of a term with several concretely present parents is
\* the parent with the greatest depth
C15_DeepestParent ==
    Constructed =>
        \A sub \in substitutions(clusteredSet) :
            Cardinality(presentParents(sub[1])) >= 2 =>
                /\ sub[2] \in presentParents(sub[1])
                /\ depth(sub[2]) = Max({depth(p) : p \in presentParents(sub[1])})

\* the walk of the substitution: a concretely present parent of the current
\* node below the root ends it with a substitute, a first parent that is the
\* root or a node without parents ends it without one, and otherwise it
\* continues from the first parent
RECURSIVE walkMeetsPresentAncestor(_)
walkMeetsPresentAncestor(term) ==
    IF parents(term) = <<>> THEN FALSE
    ELSE IF presentParents(term) \ {ANATOMICAL_ROOT} # {} THEN TRUE
    ELSE IF parents(term)[1] = ANATOMICAL_ROOT THEN FALSE
    ELSE walkMeetsPresentAncestor(parents(term)[1])

\* the dataset terms of a constructed cluster set that the map has no
\* feature for and that were dropped
droppedTerms(clusterSet) ==
    {t \in {trim(raw) : raw \in Range(clusterSet.terms)} \cap Terms :
        /\ ~hasAnatomicalIdentifier(t)
        /\ \A m \in DOMAIN clusterSet.markerTermMap : t \notin clusterSet.markerTermMap[m]}

\* C16: a substitute is a concretely present proper ancestor of the term,
\* and a term is dropped only when the walk through first parents meets no
\* concretely present parent
C16_SubstitutionWalk ==
    Constructed =>
        /\ \A sub \in substitutions(clusteredSet) :
              /\ sub[2] # sub[1]
              /\ sub[2] \in ancestors(sub[1])
              /\ hasAnatomicalIdentifier(sub[2])
        /\ \A t \in droppedTerms(clusteredSet) : ~walkMeetsPresentAncestor(t)

\* the dataset terms of a cluster set after trimming
trimmedTerms(clusterSet) == {trim(raw) : raw \in Range(clusterSet.terms)}

\* C17: a raw term the map has a feature for is retained as its own marker
\* term, and validating the marker terms again returns the same marker terms
C17_ValidationIdempotent ==
    lastOp.op = "construct" =>
        /\ \A t \in trimmedTerms(clusteredSet) :
              hasAnatomicalIdentifier(t) =>
                  /\ t \in DOMAIN clusteredSet.markerTermMap
                  /\ t \in clusteredSet.markerTermMap[t]
        /\ LET markerTerms_ == DOMAIN clusteredSet.markerTermMap
           IN validatedMarkerTerms(SortedSeq(markerTerms_))
                = [m \in markerTerms_ |-> {m}]

\* a term kept as given from a padded raw term, next to a substituted one
C17_Witness ==
    /\ lastOp.op = "construct"
    /\ substitutions(clusteredSet) # {}
    /\ \E raw \in Range(clusteredSet.terms) :
          /\ raw # trim(raw)
          /\ hasAnatomicalIdentifier(trim(raw))
          /\ trim(raw) \in DOMAIN clusteredSet.markerTermMap

\* C18: every dataset term retained under a marker term is in the
\* descendents of the marker term and of each of its ancestors in the subgraph
C18_DescendentsComplete ==
    Constructed =>
        \A m \in DOMAIN clusteredSet.markerTermMap :
            \A a \in {m} \cup subgraphAncestors(clusteredSet.graph, m) :
                clusteredSet.markerTermMap[m]
                    \subseteq GetOrEmpty(clusteredSet.descendents, a)

RECURSIVE deletedFrom(_, _)
deletedFrom(g, term) ==
    IF hasAnatomicalIdentifier(term) THEN {}
    ELSE {term} \cup UNION {deletedFrom(g, child) : child \in Range(children(g, term))}

C20_TerminalIsLeaf ==
    Constructed =>
        \A cluster \in clusters(clusteredSet) :
            cluster.maxZoom = MAX_MARKER_ZOOM =>
                cluster.markerTerm \in subgraphLeaves(clusteredSet.graph)

\* C21: a dataset term the map has a feature for but whose depth is -1 gets
\* no cluster record and no registration at any zoom level
C21_UnreachableUnusable ==
    Constructed =>
        \A t \in trimmedTerms(clusteredSet) \cap Terms :
            (hasAnatomicalIdentifier(t) /\ depth(t) = -1) =>
                /\ t \notin DOMAIN clusteredSet.clustersByTerm
                /\ registeredAt(clusteredSet, t) = {}

\* C22: the construction of a cluster set completes without raising an
\* error, whatever the term graph, the feature oracle and the term list
C22_ConstructionCompletes ==
    lastOp.op = "construct" => ~lastOp.threw

\* a raw term that validation drops: no feature on the map and no substitute
isDropped(raw) ==
    /\ trim(raw) \in Terms
    /\ ~hasAnatomicalIdentifier(trim(raw))
    /\ substituteTerm(trim(raw)) = NullTerm

\* a term list without its i-th term
without(terms, i) ==
    SubSeq(terms, 1, i - 1) \o SubSeq(terms, i + 1, Len(terms))

\* C23: the clusters and the descendant map built from a term list equal
\* those built from the list without one of its dropped terms
C23_DropIsLocal ==
    lastOp.op = "construct" =>
        \A i \in DOMAIN clusteredSet.terms :
            isDropped(clusteredSet.terms[i]) =>
                LET rest == DatasetClusterSet(
                                [id |-> clusteredSet.id, kind |-> NoKind,
                                 terms |-> without(clusteredSet.terms, i)])
                IN /\ rest.clustersByTerm = clusteredSet.clustersByTerm
                   /\ rest.descendents = clusteredSet.descendents
                   /\ rest.threw = clusteredSet.threw

\* a dropped term in a list next to a term that is kept below the root
C23_Witness ==
    /\ Constructed
    /\ \E i \in DOMAIN clusteredSet.terms : isDropped(clusteredSet.terms[i])
    /\ DOMAIN clusteredSet.markerTermMap \ {ANATOMICAL_ROOT} # {}
    /\ clusteredSet.descendents # EmptyMap

\* a dataset whose term list is empty or holds only blank and dropped terms
hasNoUsableTerm(dataset) == validatedMarkerTerms(dataset.terms) = EmptyMap

\* C24: addDatasetMarkers of a dataset with no usable term changes no
\* per-term per-zoom dataset set and registers no feature ids
C24_NoUsableTerm ==
    \A dataset \in Datasets(LayerTermLists) :
        hasNoUsableTerm(dataset) =>
            LET l == addDatasetMarkers(Layer, <<dataset>>)
            IN /\ \A term \in Terms : \A z \in Zooms :
                     datasetIds(l, term, z) = datasetIds(Layer, term, z)
               /\ l.datasetFeatureIds = datasetFeatureIds

\* C25: for every term with a record the per-zoom dataset sets and the
\* per-zoom multiscale flags each have MAX_MARKER_ZOOM + 1 entries, and so
\* do the 'zoom-count' and 'icon-zoom' arrays of every marker point
C25_ArrayLengths ==
    /\ \A term \in DOMAIN datasetsByZoomTerm :
          /\ Len(datasetsByZoomTerm[term]) = MAX_MARKER_ZOOM + 1
          /\ term \in DOMAIN multiScaleByZoomTerm
          /\ Len(multiScaleByZoomTerm[term]) = MAX_MARKER_ZOOM + 1
    /\ \A point \in points :
          /\ Len(point.zoomCount) = MAX_MARKER_ZOOM + 1
          /\ Len(point.iconZoom) = Len(point.zoomCount)

\* C26: over the depths 0..maxDepth the default band starts no earlier for a
\* greater depth, has width 1 below maxDepth, and is
\* [MAX_MARKER_ZOOM, MAX_MARKER_ZOOM] at maxDepth
C26_DepthMonotone ==
    /\ \A a, b \in 0..maxDepth :
          (/\ a < b
           /\ depthToZoomRange(a)[1] < depthToZoomRange(a)[2]
           /\ depthToZoomRange(b)[1] < depthToZoomRange(b)[2])
              => depthToZoomRange(a)[1] <= depthToZoomRange(b)[1]
    /\ \A d \in 0..(maxDepth - 1) :
          depthToZoomRange(d)[2] = depthToZoomRange(d)[1] + 1
    /\ depthToZoomRange(maxDepth) = <<MAX_MARKER_ZOOM, MAX_MARKER_ZOOM>>

\* a cluster set over a graph of the greatest depth, with a record at
\* maxDepth and records at two depths below it
C26_Witness ==
    /\ Constructed
    /\ maxDepth = MaxTerm
    /\ \E c1, c2, c3 \in clusters(clusteredSet) :
          /\ depth(c1.markerTerm) < depth(c2.markerTerm)
          /\ depth(c2.markerTerm) < maxDepth
          /\ depth(c3.markerTerm) = maxDepth
          /\ c3.minZoom = MAX_MARKER_ZOOM

\* datasetIds(term, zoomLevel) raises: the spread of an array entry that is
\* undefined, for a term with a record and a zoom level past its array
datasetIdsRaises(l, term, zoomLevel) ==
    /\ term \in DOMAIN l.datasetsByZoomTerm
    /\ zoomLevel + 1 > Len(l.datasetsByZoomTerm[term])

\* markerTerms(term) raises: the index into the result of Map.get for a
\* term without a record, at any zoom level
markerTermsRaises(l, term) == term \notin DOMAIN l.markerTermsByZoomTerm

\* C27: datasetIds and markerTerms raise for no term and for no zoom level
\* from 0 on, the levels above MAX_MARKER_ZOOM included
C27_QueriesTotal ==
    \A term \in Terms :
        /\ ~markerTermsRaises(Layer, term)
        /\ \A z \in 0..(MAX_MARKER_ZOOM + 1) : ~datasetIdsRaises(Layer, term, z)

\* the parts of the aggregate the datasets are added into
Aggregate(l) ==
    [datasetsByZoomTerm |-> l.datasetsByZoomTerm,
     multiScaleByZoomTerm |-> l.multiScaleByZoomTerm,
     markerTermsByZoomTerm |-> l.markerTermsByZoomTerm,
     markerTerms |-> l.markerTerms,
     kindByTerm |-> l.kindByTerm]

\* the layers the order of two additions is compared from: those reached by
\* fewer than MaxOrderOps calls
MaxOrderOps == 2

C29_NoMapOpenTwice ==
    /\ \A i, j \in DOMAIN mapsByPane :
          i # j => mapsByPane[i].uuid # mapsByPane[j].uuid
    /\ \A c \in DOMAIN calls :
          calls[c].pc = "returned" =>
              /\ calls[c].result \in DOMAIN calls
              /\ calls[calls[c].result].mapUuid = calls[c].mapUuid

\* C30: after removeMarker(id) for a marker of the layer the published points
\* hold no point with that id, and every marker id of the index maps to the
\* index of its own point
C30_RemovedAndIndexed ==
    /\ (lastMarkerOp.op = "remove" /\ lastMarkerOp.indexed) =>
          \A i \in DOMAIN features : features[i].id # lastMarkerOp.id
    /\ \A markerId \in DOMAIN featureIndexById :
          /\ featureIndexById[markerId] + 1 \in DOMAIN features
          /\ features[featureIndexById[markerId] + 1].id = markerId

====
